---- MODULE Spec2Model ----
\* A model of the single-threaded task executor of async/execution/src/main.rs:
\* the bounded task channel, Spawner::spawn, Executor::run, the ArcWake
\* implementation of Task, and the TimerFuture with its background thread;
\* with it the blog post of the-book/object-oriented-programming/src/state.rs
\* and the CHIP-8 processor of in-action/cpusim/src/main.rs.
EXTENDS Naturals, Integers, Sequences, FiniteSets, TLC

\* ------------------------------------------------------------------ bounds
\* Number of task identities available to Spawner::spawn.
NumTasks == 2
\* Capacity handed to sync_channel. The source sets 10_000 (main.rs:177); the
\* model scales it down so that a full queue is reachable.
MAX_QUEUED_TASKS == 2
\* Largest number of live Spawner handles (Spawner derives Clone).
MaxSpawners == 2
\* Waker invocations made by outside threads or by a poll step itself.
MaxWakes == 2

\* add_text is called at most this many times on a Post.
MaxAdds == 2
\* Longest text given to one add_text call.
MaxTextLen == 2

\* Number of 16-bit words of the programs loaded into the CHIP-8 memory.
MemWords == 3
\* memory: [u8; 4096].
MEM_SIZE == 4096
\* stack: [u16; 16].
STACK_LEN == 16
\* usize::MAX, what 0 - 1 wraps to in a build without overflow checks. The
\* model holds it as the largest integer it can represent.
USIZE_MAX == 2147483647

Tasks == 1..NumTasks
NoTask == 0
Kinds == {"timer", "opaque"}

VARIABLES
    spawners,    \* number of live Spawner handles
    sending,     \* Tasks whose Spawner::spawn is blocked inside send()
    queue,       \* the channel's buffer: Arc<Task> handles, oldest first
    receiver,    \* TRUE while the Executor (the Receiver) exists
    spawned,     \* spawned[t]: Spawner::spawn has created Task t
    kind,        \* kind[t]: which computation Task t wraps
    slot,        \* slot[t]: Task.future, "Some" or "None"
    fut,         \* fut[t]: where the computation of Task t stands
    exec_pc,     \* where the thread inside Executor::run stands
    cur,         \* the Task handle bound to `task` in Executor::run
    tm_pc,       \* tm_pc[t]: the background thread of t's TimerFuture
    completed,   \* completed[t]: SharedState.completed
    waker,       \* waker[t]: SharedState.waker, NoTask for None
    taken,       \* taken[t]: the Waker the timer thread took and is invoking
    extw,        \* extw[t]: some thread outside the executor holds a Waker of t
    polls,       \* polls[t]: poll steps started on t's computation
    wakes,       \* wakes[t]: invocations of a Waker of t
    held,        \* held[t]: computations of t taken out of the slot, in flight
    out,         \* out[t]: what t's computation has printed
    order,       \* Tasks in the order their spawn enqueued them
    failed,      \* threads that ended by a panic: the messages they died with
    hist,        \* hist[u]: history of TimerFuture u (who polled it, whom it woke)
    state,       \* Post.state: the state object of the blog post
    content,     \* Post.content: the text of the blog post
    added,       \* the arguments of the add_text calls so far, oldest first
    registers,       \* Cpu.registers
    program_counter, \* Cpu.program_counter
    memory,          \* Cpu.memory: the bytes loaded from address 0, zero beyond
    stack,           \* Cpu.stack
    stack_pointer,   \* Cpu.stack_pointer
    cpu_pc,          \* where main() of cpusim is: "init", "run", "returned", "panicked"
    fault,           \* the message of the panic that ended Cpu::run, or "none"
    idx,             \* the index of the last access to Cpu.stack, -1 before any
    calls            \* the calls not yet returned from, oldest first

\* The variables of the executor of async/execution.
execvars == << spawners, sending, queue, receiver, spawned, kind, slot, fut,
               exec_pc, cur, tm_pc, completed, waker, taken, extw, polls, wakes,
               held, out, order, failed, hist >>

\* The variables of the blog post of the-book/object-oriented-programming.
postvars == << state, content, added >>

\* The variables of the programs other than the executor.
\* The variables of the CHIP-8 processor of in-action/cpusim.
cpuvars == << registers, program_counter, memory, stack, stack_pointer,
             cpu_pc, fault, idx, calls >>

rest == << postvars, cpuvars >>

vars == << execvars, rest >>

\* ------------------------------------------------------- the channel
\* A send into a buffer without a bound.
SendResultUnbounded(q, rcv) == IF ~rcv THEN "Err" ELSE "Ok"

\* SyncSender::send on a channel of capacity MAX_QUEUED_TASKS: an error once
\* the Receiver is gone, otherwise it blocks while the buffer is full.
SendResult(q, rcv) ==
    IF ~rcv THEN "Err"
    ELSE IF Len(q) < MAX_QUEUED_TASKS THEN "Ok"
    ELSE "Block"

\* recv as it would be if only Spawner handles kept the channel open.
RecvResultSpawnersOnly(q, senders) ==
    IF q # << >> THEN "Ok"
    ELSE IF spawners = 0 THEN "Err"
    ELSE "Block"

\* Receiver::recv: the oldest message; an error once the buffer is empty and
\* no sender is left; otherwise it blocks.
RecvResult(q, senders) ==
    IF q # << >> THEN "Ok"
    ELSE IF senders = 0 THEN "Err"
    ELSE "Block"

\* A send that puts the message at the head of the buffer.
EnqueueFront(q, t) == << t >> \o q
\* SyncSender::send with room in the buffer: the message goes to the tail.
Enqueue(q, t) == Append(q, t)
\* A receive that hands out the newest message.
FrontNewest(q) == q[Len(q)]
Front(q) == Head(q)
Dequeue(q) == Tail(q)

\* ------------------------------------------------------- reference counts
InQueue(t) == Cardinality({i \in DOMAIN queue : queue[i] = t})

ExecHolds(t) ==
    IF cur = t /\ exec_pc \in {"polling", "pending", "ready", "wakeblocked",
                                "lockwait"}
    THEN 1 ELSE 0

\* Strong references to Arc<Task> t: queue entries, the executor's `task`, a
\* blocked send of spawn, Wakers stored in or taken from a SharedState, and
\* Waker clones held elsewhere.
Handles(t) ==
    InQueue(t) + ExecHolds(t)
    + (IF t \in sending THEN 1 ELSE 0)
    + Cardinality({u \in Tasks : waker[u] = t})
    + Cardinality({u \in Tasks : taken[u] = t})
    + (IF extw[t] THEN 1 ELSE 0)

RECURSIVE SumOver(_, _)
SumOver(f, S) ==
    IF S = {} THEN 0
    ELSE LET x == CHOOSE y \in S : TRUE IN f[x] + SumOver(f, S \ {x})

\* Waker invocations made so far, over all Tasks.
WakesMade == SumOver(wakes, Tasks)

\* The senders as they would be if a Task held no enqueue handle.
SendersSpawnersOnly == spawners

\* Every Task owns a clone of the SyncSender (Task.task_sender).
Senders == spawners + Cardinality({t \in Tasks : Handles(t) > 0})

Init ==
    /\ spawners = 1
    /\ sending = {}
    /\ queue = << >>
    /\ receiver = TRUE
    /\ spawned = [t \in Tasks |-> FALSE]
    /\ kind = [t \in Tasks |-> "opaque"]
    /\ slot = [t \in Tasks |-> "None"]
    /\ fut = [t \in Tasks |-> "unborn"]
    /\ exec_pc = "init"
    /\ cur = NoTask
    /\ tm_pc = [t \in Tasks |-> "none"]
    /\ completed = [t \in Tasks |-> FALSE]
    /\ waker = [t \in Tasks |-> NoTask]
    /\ taken = [t \in Tasks |-> NoTask]
    /\ extw = [t \in Tasks |-> FALSE]
    /\ polls = [t \in Tasks |-> 0]
    /\ wakes = [t \in Tasks |-> 0]
    /\ held = [t \in Tasks |-> 0]
    /\ out = [t \in Tasks |-> << >>]
    /\ order = << >>
    /\ failed = {}
    /\ hist = [u \in Tasks |->
                 [pollers |-> {}, last |-> NoTask, invoked |-> << >>]]
    /\ state = "Draft"
    /\ content = << >>
    /\ added = << >>
    /\ registers = [r \in 0..15 |-> 0]
    /\ program_counter = 0
    /\ memory = << >>
    /\ stack = [i \in 0..(STACK_LEN - 1) |-> 0]
    /\ stack_pointer = 0
    /\ cpu_pc = "init"
    /\ fault = "none"
    /\ idx = -1
    /\ calls = << >>


\* ------------------------------------------------------- Spawner (host threads)
\* #[derive(Clone)] on Spawner.
CloneSpawner ==
    /\ spawners >= 1
    /\ spawners < MaxSpawners
    /\ spawners' = spawners + 1
    /\ UNCHANGED << sending, queue, receiver, spawned, kind, slot, fut, exec_pc,
                    cur, tm_pc, completed, waker, taken, extw, polls, wakes,
                    held, out, order, failed, hist, rest >>

\* drop(spawner). A Spawner borrowed by a blocked spawn call cannot be dropped.
DropSpawner ==
    /\ spawners > Cardinality(sending)
    /\ spawners' = spawners - 1
    /\ UNCHANGED << sending, queue, receiver, spawned, kind, slot, fut, exec_pc,
                    cur, tm_pc, completed, waker, taken, extw, polls, wakes,
                    held, out, order, failed, hist, rest >>

\* The next Task identity Spawner::spawn allocates.
NextTask == CHOOSE t \in Tasks : ~spawned[t] /\ \A u \in Tasks : u < t => spawned[u]

\* A spawn whose send reports success and drops the message.
SpawnSendLost(t) ==
    LET r == SendResult(queue, receiver) IN
    /\ queue' = queue
    /\ order' = IF r = "Ok" THEN Append(order, t) ELSE order
    /\ sending' = IF r = "Block" THEN sending \cup {t} ELSE sending \ {t}
    /\ failed' = IF r = "Err" THEN failed \cup {"spawn: too many tasks queued"}
                 ELSE failed

\* What a send of Task t from spawn does to the channel, the blocked senders,
\* the spawn order and the set of panics.
SpawnSend(t) ==
    LET r == SendResult(queue, receiver) IN
    /\ queue' = IF r = "Ok" THEN Enqueue(queue, t) ELSE queue
    /\ order' = IF r = "Ok" THEN Append(order, t) ELSE order
    /\ sending' = IF r = "Block" THEN sending \cup {t} ELSE sending \ {t}
    /\ failed' = IF r = "Err" THEN failed \cup {"spawn: too many tasks queued"}
                 ELSE failed

\* Spawner::spawn(future): box the future into a new Task and send it.
Spawn(k) ==
    /\ spawners > Cardinality(sending)
    /\ \E t \in Tasks : ~spawned[t]
    /\ LET t == NextTask IN
        /\ spawned' = [spawned EXCEPT ![t] = TRUE]
        /\ kind' = [kind EXCEPT ![t] = k]
        /\ slot' = [slot EXCEPT ![t] = "Some"]
        /\ fut' = [fut EXCEPT ![t] = "new"]
        /\ SpawnSend(t)
    /\ UNCHANGED << spawners, receiver, exec_pc, cur, tm_pc, completed, waker,
                    taken, extw, polls, wakes, held, out, hist, rest >>

\* A spawn blocked in send() resumes: space became available, or the Receiver
\* was dropped.
SpawnUnblock(t) ==
    /\ t \in sending
    /\ SendResult(queue, receiver) # "Block"
    /\ SpawnSend(t)
    /\ UNCHANGED << spawners, receiver, spawned, kind, slot, fut, exec_pc, cur,
                    tm_pc, completed, waker, taken, extw, polls, wakes, held,
                    out, hist, rest >>

\* ------------------------------------------------------- Executor::run
\* A take() that leaves the computation in the slot.
TakeSlotKeeps(s) == s
\* What take() leaves in the slot.
TakeSlot(s) == "None"

\* A run() that puts the computation back whatever the poll returned.
SlotAlwaysRestored(res) == "Some"
\* A run() that never puts the computation back.
SlotNeverRestored(res) == "None"
\* What the slot holds once the poll has returned res.
SlotAfterPoll(res) == IF res = "pending" THEN "Some" ELSE "None"

\* The host calls executor.run().
Run ==
    /\ exec_pc = "init"
    /\ receiver
    /\ exec_pc' = "recv"
    /\ UNCHANGED << spawners, sending, queue, receiver, spawned, kind, slot, fut,
                    cur, tm_pc, completed, waker, taken, extw, polls, wakes,
                    held, out, order, failed, hist, rest >>

\* An executor that goes on to the next handle as soon as a poll has reported
\* Pending, before it has finished handling the Task it polled.
RecvOverlapping ==
    /\ exec_pc \in {"recv", "pending"}
    /\ RecvResult(queue, Senders) = "Ok"
    /\ queue' = Dequeue(queue)
    /\ LET task == Front(queue) IN
       IF slot[task] = "Some"
       THEN /\ slot' = [slot EXCEPT ![task] = TakeSlot(slot[task])]
            /\ held' = [held EXCEPT ![task] = @ + 1]
            /\ polls' = [polls EXCEPT ![task] = @ + 1]
            /\ exec_pc' = "polling"
            /\ cur' = task
       ELSE /\ exec_pc' = "recv"
            /\ cur' = NoTask
            /\ UNCHANGED << slot, held, polls >>
    /\ UNCHANGED << spawners, sending, receiver, spawned, kind, fut, tm_pc,
                    completed, waker, taken, extw, wakes, out, order, failed,
                    hist, rest >>

\* One turn of `while let Ok(task) = self.ready_queue.recv()` up to the poll:
\* receive the oldest handle, lock task.future and take the computation; start
\* its poll step, or skip the Task when the slot is empty. Only this thread
\* ever locks task.future, so the lock is free and the three steps are one.
Recv ==
    /\ exec_pc = "recv"
    /\ RecvResult(queue, Senders) = "Ok"
    /\ queue' = Dequeue(queue)
    /\ LET task == Front(queue) IN
       IF slot[task] = "Some"
       THEN /\ slot' = [slot EXCEPT ![task] = TakeSlot(slot[task])]
            /\ held' = [held EXCEPT ![task] = @ + 1]
            /\ polls' = [polls EXCEPT ![task] = @ + 1]
            /\ exec_pc' = "polling"
            /\ cur' = task
       ELSE /\ exec_pc' = "recv"
            /\ cur' = NoTask
            /\ UNCHANGED << slot, held, polls >>
    /\ UNCHANGED << spawners, sending, receiver, spawned, kind, fut, tm_pc,
                    completed, waker, taken, extw, wakes, out, order, failed,
                    hist, rest >>

\* recv() returns Err: the loop ends and run() returns.
RecvClosed ==
    /\ exec_pc = "recv"
    /\ RecvResult(queue, Senders) = "Err"
    /\ exec_pc' = "returned"
    /\ UNCHANGED << spawners, sending, queue, receiver, spawned, kind, slot, fut,
                    cur, tm_pc, completed, waker, taken, extw, polls, wakes,
                    held, out, order, failed, hist, rest >>

\* A run() that re-enqueues a pending Task by itself, without any wake.
FinishPollRequeues ==
    /\ exec_pc \in {"pending", "ready"}
    /\ slot' = [slot EXCEPT ![cur] = SlotAfterPoll(exec_pc)]
    /\ held' = [held EXCEPT ![cur] = @ - 1]
    /\ queue' = IF exec_pc = "pending" THEN Enqueue(queue, cur) ELSE queue
    /\ cur' = NoTask
    /\ exec_pc' = "recv"
    /\ UNCHANGED << spawners, sending, receiver, spawned, kind, fut, tm_pc,
                    completed, waker, taken, extw, polls, wakes, out, order,
                    failed, hist, rest >>

\* The poll step has returned: put a pending computation back, drop a ready
\* one; then the guard and the handle `task` go out of scope.
FinishPoll ==
    /\ exec_pc \in {"pending", "ready"}
    /\ slot' = [slot EXCEPT ![cur] = SlotAfterPoll(exec_pc)]
    /\ held' = [held EXCEPT ![cur] = @ - 1]
    /\ cur' = NoTask
    /\ exec_pc' = "recv"
    /\ UNCHANGED << spawners, sending, queue, receiver, spawned, kind, fut, tm_pc,
                    completed, waker, taken, extw, polls, wakes, out, order,
                    failed, hist, rest >>

\* The Executor is dropped (never run, after run() returned, or while a panic
\* unwinds): the Receiver disconnects and the buffered handles are dropped.
DropExecutor ==
    /\ receiver
    /\ exec_pc \in {"init", "returned", "panicked"}
    /\ receiver' = FALSE
    /\ queue' = << >>
    /\ UNCHANGED << spawners, sending, spawned, kind, slot, fut, exec_pc, cur,
                    tm_pc, completed, waker, taken, extw, polls, wakes, held,
                    out, order, failed, hist, rest >>

\* ------------------------------------------------------- the spawned async block
\* First poll of main's async block: println!("howdy!"), then
\* TimerFuture::new starts the background thread; the block goes on to await it.
BlockStart ==
    /\ exec_pc = "polling"
    /\ kind[cur] = "timer"
    /\ fut[cur] = "new"
    /\ out' = [out EXCEPT ![cur] = Append(@, "start")]
    /\ tm_pc' = [tm_pc EXCEPT ![cur] = "sleeping"]
    /\ fut' = [fut EXCEPT ![cur] = "await"]
    /\ UNCHANGED << spawners, sending, queue, receiver, spawned, kind, slot,
                    exec_pc, cur, completed, waker, taken, extw, polls, wakes,
                    held, order, failed, hist, rest >>

\* A poll that keeps the Waker it stored first and ignores later ones.
StoreWakerOnce(old, w) == IF old = NoTask THEN w ELSE old

\* shared_state.waker = Some(cx.waker().clone()): the Waker of the current poll
\* replaces whatever was stored.
StoreWaker(old, w) == w

\* A poll that reports Ready whatever the flag says.
PollResultAlwaysReady(done) == "ready"

\* The result of TimerFuture::poll, given the completed flag it reads.
PollResult(done) == IF done THEN "ready" ELSE "pending"

\* TimerFuture::poll of timer u by the Task being polled, under the SharedState
\* lock (held by the timer thread while it invokes the Waker): when not
\* completed, store a clone of the Waker of this poll. hist records the poll.
FuturePoll(u) ==
    /\ tm_pc[u] # "waking"
    /\ IF PollResult(completed[u]) = "ready"
       THEN UNCHANGED << waker, hist >>
       ELSE /\ waker' = [waker EXCEPT ![u] = StoreWaker(@, cur)]
            /\ hist' = [hist EXCEPT ![u].pollers = @ \cup {cur},
                                    ![u].last = cur]

\* A poll that consumes the completion: it clears the flag when it reports
\* Ready.
TimerPollResets ==
    /\ exec_pc = "polling"
    /\ kind[cur] = "timer"
    /\ fut[cur] = "await"
    /\ FuturePoll(cur)
    /\ exec_pc' = PollResult(completed[cur])
    /\ completed' = [completed EXCEPT ![cur] = FALSE]
    /\ IF PollResult(completed[cur]) = "ready"
       THEN /\ out' = [out EXCEPT ![cur] = Append(@, "end")]
            /\ fut' = [fut EXCEPT ![cur] = "done"]
       ELSE UNCHANGED << out, fut >>
    /\ UNCHANGED << spawners, sending, queue, receiver, spawned, kind, slot, cur,
                    tm_pc, taken, extw, polls, wakes, held, order, failed,
                    rest >>

\* The async block of main() resumes at the await: TimerFuture::poll; on
\* Pending the block is Pending, on Ready it runs on to println!("done!") and
\* completes.
TimerPoll ==
    /\ exec_pc = "polling"
    /\ kind[cur] = "timer"
    /\ fut[cur] = "await"
    /\ FuturePoll(cur)
    /\ exec_pc' = PollResult(completed[cur])
    /\ IF PollResult(completed[cur]) = "ready"
       THEN /\ out' = [out EXCEPT ![cur] = Append(@, "end")]
            /\ fut' = [fut EXCEPT ![cur] = "done"]
       ELSE UNCHANGED << out, fut >>
    /\ UNCHANGED << spawners, sending, queue, receiver, spawned, kind, slot, cur,
                    tm_pc, completed, taken, extw, polls, wakes, held, order,
                    failed, rest >>

\* ------------------------------------------------------- the timer thread
\* A timer thread that sets completed and forgets to invoke the Waker.
TimerExpireNoWake(t) ==
    /\ tm_pc[t] = "sleeping"
    /\ completed' = [completed EXCEPT ![t] = TRUE]
    /\ tm_pc' = [tm_pc EXCEPT ![t] = "done"]
    /\ UNCHANGED << spawners, sending, queue, receiver, spawned, kind, slot, fut,
                    exec_pc, cur, waker, taken, wakes, extw, polls, held, out,
                    order, failed, hist, rest >>

\* After the sleep: lock the SharedState, set completed and take the Waker.
TimerExpire(t) ==
    /\ tm_pc[t] = "sleeping"
    /\ completed' = [completed EXCEPT ![t] = TRUE]
    /\ waker' = [waker EXCEPT ![t] = NoTask]
    /\ IF waker[t] = NoTask
       THEN /\ tm_pc' = [tm_pc EXCEPT ![t] = "done"]
            /\ UNCHANGED << taken, wakes >>
       ELSE /\ tm_pc' = [tm_pc EXCEPT ![t] = "waking"]
            /\ taken' = [taken EXCEPT ![t] = waker[t]]
            /\ wakes' = [wakes EXCEPT ![waker[t]] = @ + 1]
    /\ hist' = IF waker[t] = NoTask THEN hist
               ELSE [hist EXCEPT ![t].invoked = Append(@, waker[t])]
    /\ UNCHANGED << spawners, sending, queue, receiver, spawned, kind, slot, fut,
                    exec_pc, cur, extw, polls, held, out, order, failed, rest >>

\* A timer thread that invokes the Waker it took two times.
TimerWakeTwice(t) ==
    /\ tm_pc[t] = "waking"
    /\ SendResult(queue, receiver) # "Block"
    /\ taken' = [taken EXCEPT ![t] = NoTask]
    /\ IF SendResult(queue, receiver) = "Ok"
       THEN /\ queue' = Enqueue(Enqueue(queue, taken[t]), taken[t])
            /\ tm_pc' = [tm_pc EXCEPT ![t] = "done"]
            /\ failed' = failed
       ELSE /\ queue' = queue
            /\ tm_pc' = [tm_pc EXCEPT ![t] = "panicked"]
            /\ failed' = failed \cup {"wake: Too many tasks queued"}
    /\ UNCHANGED << spawners, sending, receiver, spawned, kind, slot, fut,
                    exec_pc, cur, completed, waker, extw, polls, wakes, held,
                    out, order, hist, rest >>

\* waker.wake() of the timer thread, still under the SharedState lock: the send
\* of wake_by_ref completes, or fails because the Receiver is gone.
TimerWake(t) ==
    /\ tm_pc[t] = "waking"
    /\ SendResult(queue, receiver) # "Block"
    /\ taken' = [taken EXCEPT ![t] = NoTask]
    /\ IF SendResult(queue, receiver) = "Ok"
       THEN /\ queue' = Enqueue(queue, taken[t])
            /\ tm_pc' = [tm_pc EXCEPT ![t] = "done"]
            /\ failed' = failed
       ELSE /\ queue' = queue
            /\ tm_pc' = [tm_pc EXCEPT ![t] = "panicked"]
            /\ failed' = failed \cup {"wake: Too many tasks queued"}
    /\ UNCHANGED << spawners, sending, receiver, spawned, kind, slot, fut,
                    exec_pc, cur, completed, waker, extw, polls, wakes, held,
                    out, order, hist, rest >>

\* ------------------------------------------------------- any other computation
\* The poll step clones cx.waker() and hands the clone to another thread.
OpaqueCloneWaker ==
    /\ exec_pc = "polling"
    /\ kind[cur] = "opaque"
    /\ ~extw[cur]
    /\ extw' = [extw EXCEPT ![cur] = TRUE]
    /\ UNCHANGED << spawners, sending, queue, receiver, spawned, kind, slot, fut,
                    exec_pc, cur, tm_pc, completed, waker, taken, polls, wakes,
                    held, out, order, failed, hist, rest >>

\* The poll step invokes its own Waker: wake_by_ref on the executor thread. With
\* the buffer full the send blocks the only thread that could drain it.
OpaqueSelfWake ==
    /\ exec_pc = "polling"
    /\ kind[cur] = "opaque"
    /\ WakesMade < MaxWakes
    /\ wakes' = [wakes EXCEPT ![cur] = @ + 1]
    /\ IF SendResult(queue, receiver) = "Ok"
       THEN /\ queue' = Enqueue(queue, cur)
            /\ exec_pc' = exec_pc
       ELSE /\ queue' = queue
            /\ exec_pc' = "wakeblocked"
    /\ UNCHANGED << spawners, sending, receiver, spawned, kind, slot, fut, cur,
                    tm_pc, completed, waker, taken, extw, polls, held, out,
                    order, failed, hist, rest >>

\* The poll step calls TimerFuture::new: a SharedState and a timer thread of
\* its own (at most one per Task here).
OpaqueNewTimer ==
    /\ exec_pc = "polling"
    /\ kind[cur] = "opaque"
    /\ tm_pc[cur] = "none"
    /\ tm_pc' = [tm_pc EXCEPT ![cur] = "sleeping"]
    /\ UNCHANGED << spawners, sending, queue, receiver, spawned, kind, slot, fut,
                    exec_pc, cur, completed, waker, taken, extw, polls, wakes,
                    held, out, order, failed, hist, rest >>

\* The poll step polls a TimerFuture u that such a step created (its own, or
\* one moved to it from another Task) and returns what that poll returns.
OpaquePollTimer(u) ==
    /\ exec_pc = "polling"
    /\ kind[cur] = "opaque"
    /\ kind[u] = "opaque"
    /\ tm_pc[u] # "none"
    /\ FuturePoll(u)
    /\ exec_pc' = PollResult(completed[u])
    /\ fut' = [fut EXCEPT ![cur] = IF PollResult(completed[u]) = "ready"
                                   THEN "done" ELSE "suspended"]
    /\ UNCHANGED << spawners, sending, queue, receiver, spawned, kind, slot, cur,
                    tm_pc, completed, taken, extw, polls, wakes, held, out,
                    order, failed, rest >>

\* The poll step polls its own TimerFuture while the timer thread holds the
\* SharedState lock (it is inside waker.wake()): self.shared_state.lock()
\* blocks the executor thread.
OpaqueLockTimer ==
    /\ exec_pc = "polling"
    /\ kind[cur] = "opaque"
    /\ tm_pc[cur] = "waking"
    /\ exec_pc' = "lockwait"
    /\ UNCHANGED << spawners, sending, queue, receiver, spawned, kind, slot, fut,
                    cur, tm_pc, completed, waker, taken, extw, polls, wakes,
                    held, out, order, failed, hist, rest >>

\* The timer thread has released the lock: lock() returns and the poll of the
\* TimerFuture goes on; the poll step returns what that poll returns.
OpaqueLockAcquired ==
    /\ exec_pc = "lockwait"
    /\ FuturePoll(cur)
    /\ exec_pc' = PollResult(completed[cur])
    /\ fut' = [fut EXCEPT ![cur] = IF PollResult(completed[cur]) = "ready"
                                   THEN "done" ELSE "suspended"]
    /\ UNCHANGED << spawners, sending, queue, receiver, spawned, kind, slot, cur,
                    tm_pc, completed, taken, extw, polls, wakes, held, out,
                    order, failed, rest >>

\* future.as_mut().poll(&mut cx) returns Poll::Pending or Poll::Ready(()).
OpaqueReturn(res) ==
    /\ exec_pc = "polling"
    /\ kind[cur] = "opaque"
    /\ fut' = [fut EXCEPT ![cur] = IF res = "ready" THEN "done" ELSE "suspended"]
    /\ exec_pc' = res
    /\ UNCHANGED << spawners, sending, queue, receiver, spawned, kind, slot, cur,
                    tm_pc, completed, waker, taken, extw, polls, wakes, held,
                    out, order, failed, hist, rest >>

\* A run() that catches the panic of a poll step and goes on with the loop.
OpaquePanicCaught ==
    /\ exec_pc = "polling"
    /\ kind[cur] = "opaque"
    /\ fut' = [fut EXCEPT ![cur] = "dropped"]
    /\ held' = [held EXCEPT ![cur] = @ - 1]
    /\ cur' = NoTask
    /\ exec_pc' = "recv"
    /\ UNCHANGED << spawners, sending, queue, receiver, spawned, kind, slot,
                    tm_pc, completed, waker, taken, extw, polls, wakes, out,
                    order, failed, hist, rest >>

\* The poll step panics: run() does not catch it. The unwinding drops the
\* computation, the guard and the handle `task`.
OpaquePanic ==
    /\ exec_pc = "polling"
    /\ kind[cur] = "opaque"
    /\ fut' = [fut EXCEPT ![cur] = "dropped"]
    /\ held' = [held EXCEPT ![cur] = @ - 1]
    /\ cur' = NoTask
    /\ exec_pc' = "panicked"
    /\ UNCHANGED << spawners, sending, queue, receiver, spawned, kind, slot,
                    tm_pc, completed, waker, taken, extw, polls, wakes, out,
                    order, failed, hist, rest >>

\* ------------------------------------------------------- Wakers held elsewhere
\* ArcWake::wake_by_ref from a thread that holds a Waker clone of t: send a
\* clone of the handle; expect() panics when the send fails. A send into a full
\* buffer blocks (no step) until there is room.
ExtWake(t) ==
    /\ extw[t]
    /\ WakesMade < MaxWakes
    /\ SendResult(queue, receiver) # "Block"
    /\ wakes' = [wakes EXCEPT ![t] = @ + 1]
    /\ IF SendResult(queue, receiver) = "Ok"
       THEN /\ queue' = Enqueue(queue, t)
            /\ UNCHANGED << extw, failed >>
       ELSE /\ queue' = queue
            /\ extw' = [extw EXCEPT ![t] = FALSE]
            /\ failed' = failed \cup {"wake: Too many tasks queued"}
    /\ UNCHANGED << spawners, sending, receiver, spawned, kind, slot, fut,
                    exec_pc, cur, tm_pc, completed, waker, taken, polls, held,
                    out, order, hist, rest >>

\* A thread drops its Waker clone of t.
ExtDrop(t) ==
    /\ extw[t]
    /\ extw' = [extw EXCEPT ![t] = FALSE]
    /\ UNCHANGED << spawners, sending, queue, receiver, spawned, kind, slot, fut,
                    exec_pc, cur, tm_pc, completed, waker, taken, polls, wakes,
                    held, out, order, failed, hist, rest >>

\* ------------------------------------------------------- specifications
Next ==
    \/ CloneSpawner
    \/ DropSpawner
    \/ \E k \in Kinds : Spawn(k)
    \/ \E t \in Tasks : SpawnUnblock(t)
    \/ Run
    \/ Recv
    \/ RecvClosed
    \/ FinishPoll
    \/ DropExecutor
    \/ BlockStart
    \/ TimerPoll
    \/ \E t \in Tasks : TimerExpire(t)
    \/ \E t \in Tasks : TimerWake(t)
    \/ OpaqueCloneWaker
    \/ OpaqueSelfWake
    \/ \E res \in {"pending", "ready"} : OpaqueReturn(res)
    \/ OpaquePanic
    \/ \E t \in Tasks : ExtWake(t)
    \/ \E t \in Tasks : ExtDrop(t)

Spec == Init /\ [][Next]_vars

\* The worked example of main(): every spawned computation is the async block
\* that prints, awaits a TimerFuture and prints again; no poll step panics and
\* the Executor lives until run() has returned.
LiveNext ==
    \/ CloneSpawner
    \/ DropSpawner
    \/ Spawn("timer")
    \/ Run
    \/ Recv
    \/ RecvClosed
    \/ FinishPoll
    \/ BlockStart
    \/ TimerPoll
    \/ \E t \in Tasks : TimerExpire(t)
    \/ \E t \in Tasks : TimerWake(t)

\* The thread inside run() keeps running, and every timer thread wakes from its
\* fixed sleep and runs to its end.
LiveSpec ==
    /\ Init
    /\ [][LiveNext]_vars
    /\ WF_vars(Recv)
    /\ WF_vars(RecvClosed)
    /\ WF_vars(FinishPoll)
    /\ WF_vars(BlockStart)
    /\ WF_vars(TimerPoll)
    /\ \A t \in Tasks : WF_vars(TimerExpire(t))
    /\ \A t \in Tasks : WF_vars(TimerWake(t))

\* The Executor keeps running: no poll step panics and the Executor is not
\* dropped; computations of both kinds are spawned through the one Spawner of
\* main(), and outside threads hold and invoke Wakers.
RunNext ==
    \/ DropSpawner
    \/ \E k \in Kinds : Spawn(k)
    \/ \E t \in Tasks : SpawnUnblock(t)
    \/ Run
    \/ Recv
    \/ RecvClosed
    \/ FinishPoll
    \/ BlockStart
    \/ TimerPoll
    \/ \E t \in Tasks : TimerExpire(t)
    \/ \E t \in Tasks : TimerWake(t)
    \/ OpaqueCloneWaker
    \/ OpaqueSelfWake
    \/ \E res \in {"pending", "ready"} : OpaqueReturn(res)
    \/ \E t \in Tasks : ExtWake(t)
    \/ \E t \in Tasks : ExtDrop(t)

\* The thread inside run() keeps running, every poll step returns, and every
\* timer thread runs to its end.
RunSpec ==
    /\ Init
    /\ [][RunNext]_vars
    /\ WF_vars(Recv)
    /\ WF_vars(RecvClosed)
    /\ WF_vars(FinishPoll)
    /\ WF_vars(BlockStart)
    /\ WF_vars(TimerPoll)
    /\ WF_vars(\E res \in {"pending", "ready"} : OpaqueReturn(res))
    /\ \A t \in Tasks : WF_vars(TimerExpire(t))
    /\ \A t \in Tasks : WF_vars(TimerWake(t))

\* Spawning from several threads: Spawner clones are made, used and dropped
\* while the Executor runs; computations of both kinds are spawned, a spawn
\* may find the buffer full, and poll steps may wake their own Task. No poll
\* step panics and the Executor is not dropped.
SpawnNext ==
    \/ CloneSpawner
    \/ DropSpawner
    \/ \E k \in Kinds : Spawn(k)
    \/ \E t \in Tasks : SpawnUnblock(t)
    \/ Run
    \/ Recv
    \/ RecvClosed
    \/ FinishPoll
    \/ BlockStart
    \/ TimerPoll
    \/ \E t \in Tasks : TimerExpire(t)
    \/ \E t \in Tasks : TimerWake(t)
    \/ OpaqueSelfWake
    \/ \E res \in {"pending", "ready"} : OpaqueReturn(res)

\* The thread inside run() keeps running, every poll step returns, every timer
\* thread runs to its end and a spawn whose send can complete completes.
SpawnSpec ==
    /\ Init
    /\ [][SpawnNext]_vars
    /\ WF_vars(Recv)
    /\ WF_vars(RecvClosed)
    /\ WF_vars(FinishPoll)
    /\ WF_vars(BlockStart)
    /\ WF_vars(TimerPoll)
    /\ WF_vars(\E res \in {"pending", "ready"} : OpaqueReturn(res))
    /\ \A t \in Tasks : WF_vars(SpawnUnblock(t))
    /\ \A t \in Tasks : WF_vars(TimerExpire(t))
    /\ \A t \in Tasks : WF_vars(TimerWake(t))

\* TimerFutures that move between Tasks: besides the async block of main(),
\* computations create TimerFutures and poll their own or each other's, so a
\* TimerFuture is polled with the Wakers of different Tasks.
MoveNext ==
    \/ DropSpawner
    \/ \E k \in Kinds : Spawn(k)
    \/ Run
    \/ Recv
    \/ RecvClosed
    \/ FinishPoll
    \/ BlockStart
    \/ TimerPoll
    \/ \E t \in Tasks : TimerExpire(t)
    \/ \E t \in Tasks : TimerWake(t)
    \/ OpaqueNewTimer
    \/ \E u \in Tasks : OpaquePollTimer(u)
    \/ \E res \in {"pending", "ready"} : OpaqueReturn(res)

MoveSpec == Init /\ [][MoveNext]_vars

\* The same, where every timer thread wakes from its sleep and runs to its end.
MoveLiveSpec ==
    /\ MoveSpec
    /\ \A t \in Tasks : WF_vars(TimerExpire(t))
    /\ \A t \in Tasks : WF_vars(TimerWake(t))

\* Computations that await TimerFutures and are also woken otherwise: poll
\* steps create and poll TimerFutures and invoke their own Waker, spawns fill
\* the queue, and a poll of a TimerFuture can find its lock held.
LockNext ==
    \/ DropSpawner
    \/ \E k \in Kinds : Spawn(k)
    \/ \E t \in Tasks : SpawnUnblock(t)
    \/ Run
    \/ Recv
    \/ RecvClosed
    \/ FinishPoll
    \/ BlockStart
    \/ TimerPoll
    \/ \E t \in Tasks : TimerExpire(t)
    \/ \E t \in Tasks : TimerWake(t)
    \/ OpaqueNewTimer
    \/ \E u \in Tasks : OpaquePollTimer(u)
    \/ OpaqueLockTimer
    \/ OpaqueLockAcquired
    \/ OpaqueSelfWake
    \/ \E res \in {"pending", "ready"} : OpaqueReturn(res)

LockSpec == Init /\ [][LockNext]_vars

\* ------------------------------------------------------- the blog post
\* The characters texts are made of.
Chars == {"a", "b"}

\* The texts add_text is called with: strings of at most MaxTextLen characters.
Texts == UNION {[1..n -> Chars] : n \in 0..MaxTextLen}

\* String::push_str as an assignment: the text replaces the string.
PushStrReplaces(str, text) == text

\* String::push_str: the text is appended to the string.
PushStr(str, text) == str \o text

\* State::request_review of the three state objects.
StateRequestReview(s) ==
    CASE s = "Draft" -> "PendingReview"
      [] s = "PendingReview" -> s
      [] s = "Published" -> s

\* An approve that publishes a Draft without a review.
StateApproveDraft(s) ==
    CASE s = "Draft" -> "Published"
      [] s = "PendingReview" -> "Published"
      [] s = "Published" -> s

\* State::approve of the three state objects.
StateApprove(s) ==
    CASE s = "Draft" -> s
      [] s = "PendingReview" -> "Published"
      [] s = "Published" -> s

\* A State::content that hands out the text of the post in every state.
StateContentUngated(s, text) == text

\* State::content: the default method returns "", Published overrides it with
\* the content of the post.
StateContent(s, text) == IF s = "Published" THEN text ELSE << >>

\* Post::content(): delegates to the state object.
Content == StateContent(state, content)

\* Post::add_text(text).
AddText(text) ==
    /\ Len(added) < MaxAdds
    /\ content' = PushStr(content, text)
    /\ added' = Append(added, text)
    /\ UNCHANGED << state, execvars, cpuvars >>

\* Post::request_review(): the state object decides the next state.
RequestReview ==
    /\ state' = StateRequestReview(state)
    /\ UNCHANGED << content, added, execvars, cpuvars >>

\* Post::approve(): the state object decides the next state.
Approve ==
    /\ state' = StateApprove(state)
    /\ UNCHANGED << content, added, execvars, cpuvars >>

\* A Post from Post::new() (Init: Draft, empty content) under any sequence of
\* calls of its methods.
PostNext ==
    \/ \E text \in Texts : AddText(text)
    \/ RequestReview
    \/ Approve

PostSpec == Init /\ [][PostNext]_vars

\* ------------------------------------------------------- the CHIP-8 processor
\* The opcodes programs are made of: halt 0x0000, ret 0x00EE, add 0x8014, the
\* unimplemented 0x1000, and call 0x2nnn to each word of the program.
Ops ==
    {0, 14 * 16 + 14, 8 * 4096 + 1 * 16 + 4, 1 * 4096}
        \cup {2 * 4096 + 2 * w : w \in 0..(MemWords - 1)}

\* The programs main() may load at address 0.
Programs == [1..MemWords -> Ops]

\* The bytes of a program, each opcode high byte first.
Bytes(prog) ==
    [i \in 1..(2 * Len(prog)) |->
        IF i % 2 = 1 THEN prog[(i + 1) \div 2] \div 256
        ELSE prog[i \div 2] % 256]

\* self.memory[a]: memory is zero beyond the loaded bytes.
MemAt(a) == IF a < Len(memory) THEN memory[a + 1] ELSE 0

\* Cpu::read_opcode: (high_byte << 8) | low_byte.
ReadOpcode == MemAt(program_counter) * 256 + MemAt(program_counter + 1)

\* The four nibbles of an opcode and its low twelve bits.
NibbleC(opcode) == (opcode \div 4096) % 16
NibbleX(opcode) == (opcode \div 256) % 16
NibbleY(opcode) == (opcode \div 16) % 16
NibbleD(opcode) == opcode % 16
Nnn(opcode) == opcode % 4096

\* Which arm of the match in Cpu::run takes the opcode.
Arm(opcode) ==
    LET c == NibbleC(opcode)
        x == NibbleX(opcode)
        y == NibbleY(opcode)
        d == NibbleD(opcode)
    IN  IF c = 0 /\ x = 0 /\ y = 0 /\ d = 0 THEN "halt"
        ELSE IF c = 0 /\ x = 0 /\ y = 14 /\ d = 14 THEN "ret"
        ELSE IF c = 8 /\ d = 4 THEN "add_xy"
        ELSE IF c = 2 THEN "call"
        ELSE "todo"

\* One turn of the loop of Cpu::run reads the opcode at program_counter, which
\* has to lie inside memory, and dispatches on it.
Fetch(arm) ==
    /\ cpu_pc = "run"
    /\ program_counter + 1 < MEM_SIZE
    /\ Arm(ReadOpcode) = arm

\* main(): load a program at address 0 and the operands into R0 and R1, then
\* call cpu.run().
CpuLoad(prog) ==
    /\ cpu_pc = "init"
    /\ memory' = Bytes(prog)
    /\ registers' = [registers EXCEPT ![0] = 5, ![1] = 10]
    /\ cpu_pc' = "run"
    /\ UNCHANGED << program_counter, stack, stack_pointer, fault, idx, calls,
                    execvars, postvars >>

\* (0, 0, 0, 0) => return.
CpuHalt ==
    /\ Fetch("halt")
    /\ program_counter' = program_counter + 2
    /\ cpu_pc' = "returned"
    /\ UNCHANGED << registers, memory, stack, stack_pointer, fault, idx, calls,
                    execvars, postvars >>

\* A call that stores the address of the call instruction itself.
ReturnAddressOfCall(pc) == (pc - 2) % 65536

\* self.program_counter as u16, what call stores: run() has already advanced
\* the program counter past the call.
ReturnAddress(pc) == pc % 65536

\* The guard of call: self.stack_pointer > self.stack.len().
StackOverflow(sp) == sp > STACK_LEN

\* (0x2, _, _, _) => self.call(nnn).
CpuCall ==
    /\ Fetch("call")
    /\ LET pc == program_counter + 2
           addr == Nnn(ReadOpcode)
       IN  IF StackOverflow(stack_pointer)
           THEN /\ fault' = "Stack overflow"
                /\ cpu_pc' = "panicked"
                /\ program_counter' = pc
                /\ UNCHANGED << stack, stack_pointer, idx, calls >>
           ELSE IF stack_pointer >= STACK_LEN
           THEN /\ fault' = "index out of bounds"
                /\ cpu_pc' = "panicked"
                /\ program_counter' = pc
                /\ idx' = stack_pointer
                /\ UNCHANGED << stack, stack_pointer, calls >>
           ELSE /\ stack' = [stack EXCEPT ![stack_pointer] = ReturnAddress(pc)]
                /\ idx' = stack_pointer
                /\ stack_pointer' = stack_pointer + 1
                /\ program_counter' = addr
                /\ calls' = Append(calls, [ret |-> pc, sp |-> stack_pointer])
                /\ UNCHANGED << fault, cpu_pc >>
    /\ UNCHANGED << registers, memory, execvars, postvars >>

\* (0, 0, 0xE, 0xE) => self.ret(). With an empty stack the decrement
\* overflows: a build with overflow checks panics there, a build without them
\* wraps and panics on the stack access.
CpuRet ==
    /\ Fetch("ret")
    /\ IF stack_pointer = 0
       THEN /\ cpu_pc' = "panicked"
            /\ program_counter' = program_counter + 2
            /\ \E checks \in BOOLEAN :
                   IF checks
                   THEN /\ fault' = "attempt to subtract with overflow"
                        /\ UNCHANGED << stack_pointer, idx >>
                   ELSE /\ fault' = "index out of bounds"
                        /\ stack_pointer' = USIZE_MAX
                        /\ idx' = USIZE_MAX
            /\ UNCHANGED << calls >>
       ELSE /\ stack_pointer' = stack_pointer - 1
            /\ idx' = stack_pointer - 1
            /\ program_counter' = stack[stack_pointer - 1]
            /\ calls' = SubSeq(calls, 1, Len(calls) - 1)
            /\ UNCHANGED << fault, cpu_pc >>
    /\ UNCHANGED << registers, memory, stack, execvars, postvars >>

\* (0x8, _, _, 0x4) => self.add_xy(x, y): overflowing_add into Vx, carry in VF.
CpuAddXY ==
    /\ Fetch("add_xy")
    /\ LET x == NibbleX(ReadOpcode)
           y == NibbleY(ReadOpcode)
           sum == registers[x] + registers[y]
           v == [registers EXCEPT ![x] = sum % 256]
       IN  registers' = [v EXCEPT ![15] = IF sum > 255 THEN 1 ELSE 0]
    /\ program_counter' = program_counter + 2
    /\ UNCHANGED << memory, stack, stack_pointer, cpu_pc, fault, idx, calls,
                    execvars, postvars >>

\* _ => todo!("opcode {:04x}", opcode).
CpuTodo ==
    /\ Fetch("todo")
    /\ program_counter' = program_counter + 2
    /\ fault' = "not yet implemented"
    /\ cpu_pc' = "panicked"
    /\ UNCHANGED << registers, memory, stack, stack_pointer, idx, calls,
                    execvars, postvars >>

\* main() of cpusim with any program of MemWords opcodes.
CpuNext ==
    \/ \E prog \in Programs : CpuLoad(prog)
    \/ CpuHalt
    \/ CpuCall
    \/ CpuRet
    \/ CpuAddXY
    \/ CpuTodo

CpuSpec == Init /\ [][CpuNext]_vars

\* ------------------------------------------------------- properties
InSlot(t) == IF slot[t] = "Some" THEN 1 ELSE 0

\* C1: at most one poll in flight per Task. The computation of a Task is in at
\* most one place: in the slot or taken out by one poll step; while it is out,
\* the one holder is the thread inside Executor::run, so no second poll of the
\* same Task can start.
C1_AtMostOnePollInFlight ==
    \A t \in Tasks :
        /\ held[t] + InSlot(t) <= 1
        /\ held[t] = 1 =>
              cur = t /\ exec_pc \in {"polling", "pending", "ready", "wakeblocked"}

\* C1 witness: a Task is in the middle of its poll step while a Waker
\* invocation has already put another handle of it in the queue.
C1_Witness ==
    \E t \in Tasks : held[t] = 1 /\ exec_pc = "polling" /\ InQueue(t) >= 1

\* C2: completion finality. Once the computation of a Task has reported Ready
\* its slot is and stays empty, it stays completed and no further poll step of
\* it starts; a handle of it that run() dequeues is skipped: the executor goes
\* straight back to recv and the queue has one handle of it less.
C2_CompletionFinality ==
    [][\A t \in Tasks :
          fut[t] = "done" =>
            /\ slot[t] = "None" /\ slot'[t] = "None"
            /\ fut'[t] = "done"
            /\ polls'[t] = polls[t]
            /\ held'[t] <= held[t]
            /\ (queue # << >> /\ Head(queue) = t /\ Len(queue') < Len(queue)
                  /\ receiver')
                 => /\ exec_pc' = "recv"
                    /\ queue' = Tail(queue)]_vars

\* C2 witness: a Task completed on its first poll, its Waker was invoked twice
\* and both handles have been dequeued and skipped.
C2_Witness ==
    \E t \in Tasks :
        /\ fut[t] = "done" /\ polls[t] = 1 /\ wakes[t] = 2
        /\ queue = << >> /\ exec_pc = "recv"

\* C3: no spurious polls. The poll steps started on a Task never exceed one
\* (for its spawn) plus the invocations of its Waker.
C3_NoSpuriousPoll ==
    \A t \in Tasks : polls[t] <= 1 + wakes[t]

\* C3 witness: a Task whose Waker was invoked twice has been polled three times.
C3_Witness ==
    \E t \in Tasks : wakes[t] = 2 /\ polls[t] = 3

\* The last poll step of Task t has reported Pending.
ReturnedPending(t) ==
    /\ fut[t] \in {"await", "suspended"}
    /\ slot[t] = "Some" \/ (cur = t /\ exec_pc = "pending")

\* C4: a wake causes exactly one re-poll. While the Executor keeps running, a
\* Task whose poll reported Pending and whose Waker has been invoked once (by
\* its timer thread, by an outside thread or by the poll itself) is polled a
\* second time, and is not polled a third time for that one invocation. The
\* one way the executor thread stops without a panic is a poll step blocked in
\* its own wake on a full queue.
C4_WakeCausesOneRepoll ==
    /\ [](\A t \in Tasks : wakes[t] = 1 => polls[t] <= 2)
    /\ \A t \in Tasks :
          (wakes[t] = 1 /\ polls[t] = 1 /\ ReturnedPending(t))
             ~> (polls[t] = 2 \/ exec_pc = "wakeblocked")

\* C4 witness: a poll reported Pending, the Waker was invoked once, the second
\* poll has run and the queue is empty again.
C4_Witness ==
    \E t \in Tasks :
        wakes[t] = 1 /\ polls[t] = 2 /\ queue = << >> /\ exec_pc = "recv"

\* C5 (as claimed): a spawn that finds the queue at capacity ends in the fatal
\* failure; its caller is never left blocked inside send().
C5_OverflowIsFatal ==
    \A t \in sending : SendResult(queue, receiver) = "Err"

\* C6 (as claimed): recv decides as if the channel were closed as soon as no
\* Spawner handle is left.
C6_ClosedWhenNoSpawner ==
    exec_pc = "recv" => RecvResult(queue, Senders) = RecvResult(queue, spawners)

\* C6 (amended): run() returns exactly when the queue is empty and no sender is
\* left, that is when every Spawner has been dropped and every Task, each of
\* which owns a clone of the sender, has been destroyed.
C6_ReturnsWhenNoSenderLeft ==
    /\ exec_pc = "returned" =>
          queue = << >> /\ spawners = 0 /\ \A t \in Tasks : Handles(t) = 0
    /\ (exec_pc = "recv" /\ queue = << >> /\ spawners = 0
          /\ \A t \in Tasks : Handles(t) = 0) => ENABLED RecvClosed
    /\ (exec_pc = "recv" /\ (queue # << >> \/ spawners > 0
          \/ \E t \in Tasks : Handles(t) > 0)) => ~ENABLED RecvClosed

\* C6 witness: run() has returned after polling a Task twice, so in between it
\* waited for a Task that was pending.
C6_Witness ==
    exec_pc = "returned" /\ \E t \in Tasks : polls[t] = 2

\* The first poll steps follow the order of the spawns.
FirstPollOrder ==
    \A i, j \in DOMAIN order :
        (i < j /\ polls[order[j]] >= 1) => polls[order[i]] >= 1

\* C7: FIFO delivery. A send appends at the tail, a receive takes the oldest
\* handle, and a Task spawned before another is polled for the first time
\* before the other.
C7_Fifo ==
    [][/\ Len(queue') > Len(queue) => SubSeq(queue', 1, Len(queue)) = queue
       /\ (Len(queue') < Len(queue) /\ receiver') =>
             /\ queue' = Tail(queue)
             /\ exec_pc' = "polling" => cur' = Head(queue)
       /\ FirstPollOrder']_vars

\* C7 witness: two Tasks were spawned one after the other and both have had
\* their first poll, with no Waker invoked.
C7_Witness ==
    /\ Len(order) = 2
    /\ polls[order[1]] = 1 /\ polls[order[2]] = 1
    /\ \A t \in Tasks : wakes[t] = 0

\* C8 (as claimed): no invocation of a Waker ends in a panic of its thread.
C8_WakeNeverFails ==
    "wake: Too many tasks queued" \notin failed

\* The poll of Task t has reported Pending from its TimerFuture.
PendingOnTimer(t) ==
    /\ fut[t] = "await"
    /\ slot[t] = "Some" \/ (cur = t /\ exec_pc = "pending")

\* C9: dropping the Spawner cancels nothing. In the worked example a Task that
\* is pending on its TimerFuture when the last Spawner is gone is polled again
\* and completes, and run() does not return before every spawned Task has.
C9_DropSpawnerCancelsNothing ==
    /\ [](exec_pc = "returned" => \A t \in Tasks : spawned[t] => fut[t] = "done")
    /\ \A t \in Tasks :
          (spawners = 0 /\ PendingOnTimer(t)) ~> (fut[t] = "done" /\ polls[t] = 2)

\* C9 witness: every Spawner is dropped, the queue is empty, run() waits in
\* recv and a Task is pending on a timer that has not fired yet.
C9_Witness ==
    \E t \in Tasks :
        /\ spawners = 0 /\ queue = << >> /\ exec_pc = "recv"
        /\ fut[t] = "await" /\ slot[t] = "Some" /\ tm_pc[t] = "sleeping"

\* C10: end to end. In the worked example, once the Spawner is dropped and
\* run() was called, run() returns, every computation has by then printed its
\* start and its end, and no computation prints its end before its start.
C10_EndToEnd ==
    /\ [](\A t \in Tasks :
            out[t] \in {<< >>, <<"start">>, <<"start", "end">>})
    /\ (spawners = 0 /\ exec_pc # "init") ~>
          (exec_pc = "returned"
             /\ \A t \in Tasks : spawned[t] => out[t] = <<"start", "end">>)

\* C10 witness: run() has returned and every Task was spawned and printed both
\* lines.
C10_Witness ==
    /\ exec_pc = "returned"
    /\ \A t \in Tasks : spawned[t] /\ out[t] = <<"start", "end">>

\* This step is an invocation of a Waker of Task t: wake_by_ref from the poll
\* step itself or from a thread holding a clone, or waker.wake() of a timer
\* thread on the Waker it took.
WakeInvoked(t) ==
    \/ wakes'[t] = wakes[t] + 1 /\ taken' = taken
    \/ \E u \in Tasks : taken[u] = t /\ taken'[u] = NoTask

Enqueued == {order[i] : i \in DOMAIN order}

\* C12: concurrent spawning loses nothing. With Spawner clones in use
\* concurrently, the step that completes a spawn adds one entry for one new
\* Task at the tail, the computation being in the slot; a spawned Task that was
\* not polled yet has exactly one queue entry and its computation in the slot,
\* no Task is spawned twice, and while the Executor runs (run() was called and
\* its thread is not stuck inside a wake) every spawned Task is polled.
C12_SpawnLosesNothing ==
    /\ [][\A t \in Tasks :
           (t \in Enqueued' /\ t \notin Enqueued) =>
               /\ order' = Append(order, t)
               /\ queue' = Append(queue, t)
               /\ InQueue(t) = 0
               /\ slot'[t] = "Some" /\ polls'[t] = 0 /\ spawned'[t]]_vars
    /\ [](\A t \in Enqueued :
             polls[t] = 0 => (InQueue(t) = 1 /\ slot[t] = "Some"))
    /\ [](\A i, j \in DOMAIN order : order[i] = order[j] => i = j)
    /\ \A t \in Tasks :
           (t \in Enqueued /\ exec_pc # "init")
               ~> (polls[t] >= 1 \/ exec_pc = "wakeblocked")

\* Two Spawner clones exist, two Tasks were spawned and both have been polled.
C12_Witness ==
    /\ spawners >= 2
    /\ Len(order) = 2
    /\ \A t \in Enqueued : polls[t] >= 1

\* C13: TimerFuture completion is monotonic. No step of any thread, whatever the
\* interleaving of polls and timer threads, takes a SharedState.completed that
\* is true back to false.
C13_CompletedMonotonic ==
    [][\A t \in Tasks : completed[t] => completed'[t]]_vars

\* A TimerFuture was polled before and after its timer expired, and its flag
\* is still set after the poll that reported Ready.
C13_Witness ==
    \E t \in Tasks :
        completed[t] /\ polls[t] >= 2 /\ fut[t] = "done" /\ tm_pc[t] = "done"

\* C14: a TimerFuture wakes exactly once. The expiry step of timer thread u sets
\* completed and takes the stored Waker, if there is one, for one invocation;
\* that invocation adds one entry of the Waker's Task to the queue; over its
\* whole life the thread invokes at most one Waker: exactly one once it has
\* expired after a poll returned Pending, and none if no poll returned Pending
\* before the expiry.
C14_TimerWakesOnce ==
    /\ [](\A u \in Tasks :
             /\ Len(hist[u].invoked) <= 1
             /\ ~completed[u] => hist[u].invoked = << >>
             /\ completed[u] =>
                    Len(hist[u].invoked) = IF hist[u].pollers = {} THEN 0 ELSE 1)
    /\ [][\A u \in Tasks :
           /\ (tm_pc[u] = "sleeping" /\ tm_pc'[u] # "sleeping") =>
                  /\ completed'[u]
                  /\ waker'[u] = NoTask
                  /\ IF waker[u] = NoTask
                     THEN tm_pc'[u] = "done" /\ queue' = queue
                     ELSE /\ taken'[u] = waker[u]
                          /\ hist'[u].invoked = << waker[u] >>
           /\ (tm_pc[u] = "waking" /\ tm_pc'[u] = "done") =>
                  /\ queue' = Append(queue, taken[u])
                  /\ taken'[u] = NoTask]_vars

\* One timer thread expired after a poll had returned Pending and has invoked
\* the Waker; another expired before any poll and invoked nothing.
C14_Witness ==
    \E u, v \in Tasks :
        /\ tm_pc[u] = "done" /\ hist[u].pollers # {}
        /\ Len(hist[u].invoked) = 1
        /\ tm_pc[v] = "done" /\ hist[v].pollers = {} /\ hist[v].invoked = << >>

\* What a poll of TimerFuture u by the Task being polled has to do.
PollContract(u) ==
    /\ exec_pc' = IF completed[u] THEN "ready" ELSE "pending"
    /\ IF completed[u]
       THEN waker' = waker
       ELSE waker' = [waker EXCEPT ![u] = cur]
    /\ completed' = completed

\* C15: the poll contract of TimerFuture. Every poll of a TimerFuture, by the
\* async block that awaits it or by any computation it has moved to, returns
\* Ready if and only if completed is true when it is polled; when completed is
\* false it returns Pending and the stored Waker is then the Waker of this
\* poll, whatever was stored before; a poll that returns Ready leaves the
\* stored Wakers as they were.
C15_PollContract ==
    [][/\ TimerPoll => PollContract(cur)
       /\ \A u \in Tasks : OpaquePollTimer(u) => PollContract(u)]_vars

\* A poll has just returned Pending after replacing the Waker another Task had
\* stored in the same TimerFuture.
C15_Witness ==
    \E u \in Tasks :
        /\ exec_pc = "pending" /\ waker[u] = cur
        /\ Cardinality(hist[u].pollers) = 2

\* C16: only the most recent Waker is woken. Whatever Tasks polled TimerFuture
\* u and got Pending, the only Waker its timer thread ever invokes is that of
\* the Task of the last such poll, and the wake of the timer thread enqueues
\* that Task and no other; a Task whose Waker was replaced is never woken by
\* this timer.
C16_OnlyLatestWakerWoken ==
    /\ [](\A u \in Tasks : \A i \in DOMAIN hist[u].invoked :
             hist[u].invoked[i] = hist[u].last)
    /\ [](\A u \in Tasks : taken[u] # NoTask => taken[u] = hist[u].last)
    /\ [][\A u \in Tasks :
           (tm_pc[u] = "waking" /\ tm_pc'[u] = "done") =>
               queue' = Append(queue, hist[u].last)]_vars

\* A TimerFuture was polled with the Waker of Task x and later with the Waker
\* of Task y; its timer has expired and woken y, and x was never woken.
C16_Witness ==
    \E u, x, y \in Tasks :
        /\ x # y
        /\ hist[u].pollers = {x, y} /\ hist[u].last = y
        /\ tm_pc[u] = "done" /\ hist[u].invoked = << y >>
        /\ wakes[y] = 1 /\ wakes[x] = 0 /\ InQueue(y) = 1 /\ InQueue(x) = 0

\* C17: the queue capacity invariant. The capacity is the fixed value
\* MAX_QUEUED_TASKS given to sync_channel, and in every reachable state the
\* queue holds at most that many Task handles, those sent by spawns and those
\* sent by Waker invocations counted together.
C17_QueueWithinCapacity == Len(queue) <= MAX_QUEUED_TASKS

\* The queue is full with one handle from a spawn and one from a Waker
\* invocation, and a further Waker invocation is held back by the full buffer.
C17_Witness ==
    /\ Len(queue) = MAX_QUEUED_TASKS
    /\ \E i \in DOMAIN queue : polls[queue[i]] = 0
    /\ \E i \in DOMAIN queue : polls[queue[i]] >= 1 /\ wakes[queue[i]] >= 1
    /\ exec_pc = "wakeblocked"

\* C18: a panic in a poll step is not contained. The step in which a poll step
\* panics takes the executor thread out of run() by unwinding; from then on the
\* loop never runs again: the thread stays out of run(), no Task is polled, no
\* computation is taken out of its slot, and no handle leaves the queue except
\* by the drop of the Executor.
C18_PanicNotContained ==
    [][/\ \A t \in Tasks :
            (fut[t] # "dropped" /\ fut'[t] = "dropped") =>
                (exec_pc = "polling" /\ cur = t /\ exec_pc' = "panicked")
       /\ exec_pc = "panicked" =>
            /\ exec_pc' = "panicked"
            /\ polls' = polls /\ cur' = cur
            /\ \A t \in Tasks : slot[t] = "Some" => slot'[t] = "Some"
            /\ (Len(queue') < Len(queue) => ~receiver')]_vars

\* A poll step has panicked while another Task, spawned and never polled, is
\* waiting in the queue with its computation in its slot.
C18_Witness ==
    /\ exec_pc = "panicked"
    /\ \E t \in Tasks : fut[t] = "dropped"
    /\ \E t \in Tasks : InQueue(t) = 1 /\ polls[t] = 0 /\ slot[t] = "Some"

\* The executor thread is not inside a poll step nor between a poll step and
\* the handling of its result.
NoPollInProgress ==
    ~(exec_pc \in {"polling", "pending", "ready", "wakeblocked", "lockwait"})

\* C20 as stated: in every state where no poll is in progress, the slot of a
\* Task is empty if and only if its computation has reported Ready.
C20_SlotEmptyIffReady ==
    NoPollInProgress =>
        \A t \in Tasks : spawned[t] => (slot[t] = "None" <=> fut[t] = "done")

\* C20, amended: when run() finishes handling a dequeued Task, the slot holds
\* the same computation again if the poll returned Pending and is empty if it
\* returned Ready; in every state where no poll is in progress, the slot of a
\* Task is empty if and only if its computation has reported Ready or its poll
\* step panicked (the unwinding drops the computation that was taken out).
C20_SlotAfterPoll ==
    /\ [][\A t \in Tasks :
           (cur = t /\ exec_pc \in {"pending", "ready"} /\ exec_pc' = "recv") =>
               /\ slot'[t] = IF exec_pc = "pending" THEN "Some" ELSE "None"
               /\ fut'[t] = fut[t]]_vars
    /\ [](NoPollInProgress =>
             \A t \in Tasks :
                 spawned[t] =>
                     (slot[t] = "None" <=> fut[t] \in {"done", "dropped"}))

\* Between two polls: one Task has returned Pending and has its computation
\* back in its slot, another has returned Ready and its slot is empty.
C20_Witness ==
    /\ exec_pc = "recv"
    /\ \E t \in Tasks :
           polls[t] >= 1 /\ fut[t] \in {"suspended", "await"} /\ slot[t] = "Some"
    /\ \E t \in Tasks : fut[t] = "done" /\ slot[t] = "None"

\* The concatenation of a list of texts, in order.
RECURSIVE Flatten(_)
Flatten(texts) ==
    IF texts = << >> THEN << >> ELSE Head(texts) \o Flatten(Tail(texts))

\* C19: Post content is gated on publication. Whatever text has been added,
\* Post::content() is the empty string while the post is a Draft or in
\* PendingReview, and once the post is Published it is exactly the
\* concatenation, in order, of the arguments of all add_text calls made so far.
C19_ContentGated ==
    Content = IF state = "Published" THEN Flatten(added) ELSE << >>

\* Text was added in two calls, a review was requested and the post approved:
\* the published content is the first text followed by the second.
C19_Witness ==
    /\ state = "Published"
    /\ Len(added) = 2 /\ added[1] # << >> /\ added[2] # << >>
    /\ added[1] # added[2]
    /\ Content = added[1] \o added[2]

\* The computation of Task t has been polled and is neither finished nor
\* destroyed.
Unfinished(t) == fut[t] \in {"new", "await", "suspended"}

\* C21: a wake during an in-progress poll is not lost. Handles are dequeued
\* only between polls, when every unfinished computation is back in its slot:
\* a dequeued handle of an unfinished Task always starts a poll of it. So when
\* a Waker of Task t was invoked by another thread while t's poll was in
\* progress (a handle of t is queued while the executor still holds t) and the
\* poll returns Pending, t is polled again, unless the executor thread gets
\* stuck inside a Waker invocation of an earlier poll.
C21_WakeDuringPollNotLost ==
    /\ [][\A t \in Tasks :
           (Len(queue') < Len(queue) /\ receiver' /\ Head(queue) = t
            /\ Unfinished(t)) =>
               /\ exec_pc = "recv" /\ slot[t] = "Some"
               /\ polls'[t] = polls[t] + 1 /\ cur' = t
               /\ exec_pc' = "polling"]_vars
    /\ \A t \in Tasks :
           (cur = t /\ exec_pc = "pending" /\ InQueue(t) >= 1 /\ polls[t] = 1)
               ~> (polls[t] >= 2 \/ exec_pc = "wakeblocked")

\* The poll of a Task has returned Pending and its computation is not yet
\* back in the slot, while the timer thread has already enqueued the Task.
C21_Witness ==
    \E t \in Tasks :
        /\ cur = t /\ exec_pc = "pending" /\ slot[t] = "None"
        /\ kind[t] = "timer" /\ tm_pc[t] = "done" /\ InQueue(t) = 1

\* The executor thread is between the dequeue of a Task and the end of the
\* handling of its poll step.
InPoll ==
    exec_pc \in {"polling", "pending", "ready", "wakeblocked", "lockwait"}

\* C22: polls are serialised across all Tasks. At most one Task has a poll
\* step in progress, and it is the Task the executor dequeued last; from that
\* dequeue until the handling of the poll has ended (by a result or a panic)
\* run() starts no poll, takes no handle from the queue and does not change
\* the Task it is working on.
C22_PollsSerialised ==
    /\ [](/\ Cardinality({t \in Tasks : held[t] > 0}) <= 1
          /\ \A t \in Tasks : held[t] <= 1
          /\ \A t \in Tasks : held[t] = 1 <=> (InPoll /\ cur = t))
    /\ [][InPoll =>
            /\ polls' = polls
            /\ (receiver' => Len(queue') >= Len(queue))
            /\ \/ cur' = cur /\ InPoll'
               \/ cur' = NoTask /\ exec_pc' \in {"recv", "panicked"}]_vars

\* One Task is being polled while another Task, ready to be polled, waits at
\* the head of the queue.
C22_Witness ==
    /\ exec_pc = "polling"
    /\ queue # << >>
    /\ Head(queue) # cur /\ slot[Head(queue)] = "Some"

\* C23: no lost wake-up in TimerFuture. The flag is never true while a Waker
\* is still stored; once the timer thread has finished, the Waker stored by
\* the latest Pending poll, if there was such a poll, has been invoked; and
\* whenever a Waker is stored, the timer thread goes on to finish having
\* invoked the Waker of the latest Pending poll.
C23_NoLostWakeup ==
    /\ [](\A u \in Tasks : completed[u] => waker[u] = NoTask)
    /\ [](\A u \in Tasks :
             (tm_pc[u] \in {"done", "panicked"} /\ hist[u].pollers # {}) =>
                 (completed[u] /\ hist[u].invoked = << hist[u].last >>))
    /\ \A u \in Tasks :
           (waker[u] # NoTask)
               ~> (tm_pc[u] = "done" /\ hist[u].invoked = << hist[u].last >>)

\* A poll has returned Pending and, before run() has put the computation back,
\* the timer thread has set the flag, taken the Waker of that poll and invoked
\* it.
C23_Witness ==
    \E u \in Tasks :
        /\ exec_pc = "pending" /\ hist[u].last = cur
        /\ completed[u] /\ tm_pc[u] = "done" /\ waker[u] = NoTask
        /\ hist[u].invoked = << cur >> /\ InQueue(cur) = 1

\* Timer thread u is blocked in the send of its Waker invocation, the queue
\* being full, and holds the lock of its SharedState; the executor thread is
\* inside a poll, blocked in lock() on that same SharedState.
LockDeadlock(u) ==
    /\ tm_pc[u] = "waking"
    /\ SendResult(queue, receiver) = "Block"
    /\ exec_pc = "lockwait" /\ cur = u

\* C24: no deadlock between timer threads and the Executor. No reachable state
\* has a timer thread blocked enqueueing into the full queue while it holds
\* the lock of its SharedState and the executor thread blocked waiting for
\* that lock inside a poll.
C24_NoLockDeadlock == \A u \in Tasks : ~LockDeadlock(u)

\* For the async block of main(), which is polled again only after the wake
\* of its own timer thread has completed, a poll never finds the lock held.
C24_BlockNeverWaitsForLock ==
    \A t \in Tasks :
        (kind[t] = "timer" /\ cur = t /\ exec_pc = "polling") =>
            tm_pc[t] # "waking"

\* A Waker of Task t is held somewhere: stored in a SharedState, taken by a
\* timer thread for its invocation, or cloned to another thread.
WakerHeld(t) ==
    \/ extw[t]
    \/ \E u \in Tasks : waker[u] = t \/ taken[u] = t

\* C25: run() does not return under a live pending Task. While the computation
\* of some Task is Pending and a Waker of that Task is held anywhere, the
\* channel has a sender left, so recv does not report it closed and run() has
\* not returned; with the queue empty run() blocks in recv, also when every
\* Spawner has been dropped.
C25_NoReturnUnderPendingTask ==
    \A t \in Tasks :
        (fut[t] \in {"await", "suspended"} /\ WakerHeld(t)) =>
            /\ exec_pc # "returned"
            /\ Senders >= 1
            /\ RecvResult(queue, Senders) # "Err"
            /\ queue = << >> => RecvResult(queue, Senders) = "Block"

\* Every Spawner is dropped and the queue is empty; run() is blocked in recv
\* while a Task is pending on its timer, whose SharedState holds the Waker.
C25_Witness ==
    /\ spawners = 0 /\ queue = << >> /\ exec_pc = "recv"
    /\ \E t \in Tasks : fut[t] = "await" /\ waker[t] = t /\ slot[t] = "Some"

\* C26: self-wake inside a poll. The executor thread, the only consumer of the
\* queue, is never blocked for good inside the invocation of the Waker of the
\* Task it is polling: it is never inside a send into the full queue, which
\* nobody but itself could drain.
C26_SelfWakeNeverBlocks ==
    ~(exec_pc = "wakeblocked" /\ SendResult(queue, receiver) = "Block")

\* C27: bounded work for the timer workload. A Task whose computation is the
\* async block awaiting one TimerFuture, with no Waker invocation but the one
\* of its timer thread, is polled at most twice, is woken at most once, and
\* never has more than one handle in the queue.
C27_TimerTaskBoundedWork ==
    \A t \in Tasks :
        kind[t] = "timer" =>
            (polls[t] <= 2 /\ wakes[t] <= 1 /\ InQueue(t) <= 1)

\* A Task awaiting its timer was polled, woken by the timer thread and polled
\* a second time, in which it completed.
C27_Witness ==
    \E t \in Tasks :
        /\ kind[t] = "timer" /\ polls[t] = 2 /\ wakes[t] = 1
        /\ fut[t] = "done" /\ InQueue(t) = 0

\* C28: Post states only advance Draft -> PendingReview -> Published. approve
\* on a Draft, and request_review on a post in PendingReview or Published,
\* leave the state unchanged, and add_text never changes it; the state becomes
\* PendingReview only by request_review on a Draft and Published only by
\* approve on a post in PendingReview, so a Published post has had a
\* request_review before an approve; a Published post stays Published.
C28_PostOnlyAdvances ==
    /\ [](state \in {"Draft", "PendingReview", "Published"})
    /\ [][/\ (Approve /\ state = "Draft") => state' = "Draft"
          /\ (RequestReview /\ state # "Draft") => state' = state
          /\ (\E text \in Texts : AddText(text)) => state' = state
          /\ (state' = "PendingReview" /\ state # "PendingReview") =>
                 (RequestReview /\ state = "Draft")
          /\ (state' = "Published" /\ state # "Published") =>
                 (Approve /\ state = "PendingReview")
          /\ state' = "Draft" => state = "Draft"
          /\ state = "Published" => state' = "Published"]_vars

\* A post with one text added has gone through review and approval and is
\* Published.
C28_Witness ==
    state = "Published" /\ Len(added) = 1 /\ Content = added[1]

\* C29: CHIP-8 ret reverses call. At every nesting depth that fits the stack,
\* the stack holds, oldest first, the addresses following the calls not yet
\* returned from; a call records the address of the instruction after it and
\* the stack pointer it found, and jumps to its operand; a ret takes the
\* program counter back to the address following the latest such call and the
\* stack pointer to its value before that call, so nested calls return in
\* last-in-first-out order.
C29_RetReversesCall ==
    /\ [](cpu_pc \in {"run", "returned"} =>
             /\ stack_pointer = Len(calls)
             /\ stack_pointer <= STACK_LEN
             /\ \A i \in 1..Len(calls) :
                    stack[i - 1] = calls[i].ret /\ calls[i].sp = i - 1)
    /\ [][/\ Len(calls') = Len(calls) + 1 =>
                /\ calls'[Len(calls')] =
                       [ret |-> program_counter + 2, sp |-> stack_pointer]
                /\ program_counter' = Nnn(ReadOpcode)
                /\ stack_pointer' = stack_pointer + 1
          /\ Len(calls') = Len(calls) - 1 =>
                /\ program_counter' = calls[Len(calls)].ret
                /\ stack_pointer' = calls[Len(calls)].sp
                /\ calls' = SubSeq(calls, 1, Len(calls) - 1)
                /\ stack' = stack]_vars

\* Two calls were nested and the inner one has returned: the processor is
\* back after the inner call, one call deep.
C29_Witness ==
    /\ cpu_pc = "run"
    /\ Len(calls) = 1 /\ stack_pointer = 1 /\ idx = 1
    /\ program_counter = stack[1]

\* C30: the CHIP-8 call stack stays in bounds. Every index used on the
\* 16-entry stack is within 0..15, Cpu::run never ends by an out-of-range
\* access, and a call found with 16 return addresses stacked ends by the
\* 'Stack overflow' panic without touching the stack.
C30_StackInBounds ==
    /\ idx \in -1..(STACK_LEN - 1)
    /\ fault # "index out of bounds"
    /\ (cpu_pc = "panicked" /\ Len(calls) = STACK_LEN) =>
           fault = "Stack overflow"

\* The seventeenth nested call ends Cpu::run by an access to stack[16].
C30_CallIndexesPastTheStack ==
    ~(fault = "index out of bounds" /\ idx = STACK_LEN
      /\ stack_pointer = STACK_LEN /\ Len(calls) = STACK_LEN)

\* The 'Stack overflow' panic of call never happens.
C30_OverflowCheckNeverFires == fault # "Stack overflow"
====
